---- MODULE Spec2Model ----
(***************************************************************************)
(* Model of mqtt_publisher.py (EconetMQTTPublisher): the poll loop of      *)
(* run(), the publish sweeps, the MQTT connection callbacks and the        *)
(* shutdown path, together with the part of the MQTT transport and broker  *)
(* the publisher observes (connect, CONNACK delivery, last will).          *)
(***************************************************************************)
EXTENDS Integers, Sequences, FiniteSets, TLC

(***************************************************************************)
(* Bounds of the model.                                                    *)
(***************************************************************************)
\* POLLING_INTERVAL is drawn from 0..MaxInterval.
MaxInterval == 2
\* Automatic reconnects of the transport's network thread in one run.
MaxReconnects == 1

(***************************************************************************)
(* JSON documents as Python sees them after response.json(): tagged        *)
(* values.  A dict keeps its items in insertion order as a sequence of     *)
(* [k, v] pairs; a float is kept in tenths (52 is 5.2).                    *)
(***************************************************************************)
None == [t |-> "none", v |-> 0]
PInt(n) == [t |-> "int", v |-> n]
PFloat(tenths) == [t |-> "float", v |-> tenths]
PStr(s) == [t |-> "str", v |-> s]
PBool(b) == [t |-> "bool", v |-> b]
PList(seq) == [t |-> "list", v |-> seq]
PDict(items) == [t |-> "dict", v |-> items]
Item(key, val) == [k |-> key, v |-> val]

\* Path segments of topic_mappings: Python str and int keys.
K(s) == [k |-> "str", s |-> s, i |-> 0]
I(n) == [k |-> "int", s |-> "", i |-> n]

\* isinstance(current, dict) / isinstance(current, list)
IsDict(x) == x.t = "dict"
IsList(x) == x.t = "list"

\* current[key] on a dict: the items whose key is the str `s`; JSON object
\* keys are always str, so an int key is never found (KeyError).
DictHitsCoerced(d, seg) ==
  {n \in 1..Len(d.v) : d.v[n].k = IF seg.k = "str" THEN seg.s ELSE "0"}
DictHits(d, seg) ==
  IF seg.k = "str" THEN {n \in 1..Len(d.v) : d.v[n].k = seg.s} ELSE {}

\* int(key) for a str key: the numeric strings the model knows; any other
\* str raises ValueError.
IntLiterals == <<Item("0", 0), Item("1", 1), Item("2", 2), Item("-1", 0 - 1)>>
IntHits(s) == {n \in 1..Len(IntLiterals) : IntLiterals[n].k = s}
IntParses(seg) == seg.k = "int" \/ IntHits(seg.s) # {}
IntOf(seg) ==
  IF seg.k = "int" THEN seg.i ELSE IntLiterals[CHOOSE n \in IntHits(seg.s) : TRUE].v

\* current[int(key)] on a list: Python indices -len..len-1, 0-based.
ListInRange(l, n) == n >= 0 - Len(l.v) /\ n < Len(l.v)
ListAt(l, n) == IF n >= 0 THEN l.v[n + 1] ELSE l.v[Len(l.v) + n + 1]

\* One iteration of the for loop of _get_nested_value: the value after
\* the step; `stop` when the function returns None, either by the early
\* return or by one of the caught KeyError/IndexError/TypeError/ValueError.
Step(current, seg) ==
  IF IsDict(current)
  THEN IF DictHits(current, seg) # {}
       THEN [val |-> current.v[CHOOSE n \in DictHits(current, seg) :
                                 \A m \in DictHits(current, seg) : m <= n].v,
             stop |-> FALSE]
       ELSE [val |-> None, stop |-> TRUE]
  ELSE IF IsList(current)
  THEN IF IntParses(seg) /\ ListInRange(current, IntOf(seg))
       THEN [val |-> ListAt(current, IntOf(seg)), stop |-> FALSE]
       ELSE [val |-> None, stop |-> TRUE]
  ELSE [val |-> None, stop |-> TRUE]

RECURSIVE Walk(_, _, _)
Walk(current, path, n) ==
  IF n > Len(path) THEN [val |-> current, stop |-> FALSE]
  ELSE LET r == Step(current, path[n])
       IN  IF r.stop THEN r ELSE Walk(r.val, path, n + 1)

\* The unwrap of a final non-empty list to its element 0.
UnwrapNever(current) == current
Unwrap(current) ==
  IF IsList(current) /\ Len(current.v) > 0 THEN current.v[1] ELSE current

\* _get_nested_value(data, path); None is Python's None.
get_nested_value(data, path) ==
  LET r == Walk(data, path, 1)
  IN  IF r.stop THEN None ELSE Unwrap(r.val)

(***************************************************************************)
(* str(value) and repr(value).                                             *)
(***************************************************************************)
Digit(d) == <<"0", "1", "2", "3", "4", "5", "6", "7", "8", "9">>[d + 1]

RECURSIVE NatStr(_)
NatStr(n) == IF n < 10 THEN Digit(n) ELSE NatStr(n \div 10) \o Digit(n % 10)

IntStr(n) == IF n < 0 THEN "-" \o NatStr(0 - n) ELSE NatStr(n)

FloatStr(tenths) ==
  IF tenths < 0
  THEN "-" \o NatStr((0 - tenths) \div 10) \o "." \o Digit((0 - tenths) % 10)
  ELSE NatStr(tenths \div 10) \o "." \o Digit(tenths % 10)

RECURSIVE Repr(_)
RECURSIVE ReprItems(_, _, _)
ReprItems(seq, n, isDict) ==
  IF n > Len(seq) THEN ""
  ELSE (IF n > 1 THEN ", " ELSE "")
       \o (IF isDict THEN "'" \o seq[n].k \o "': " \o Repr(seq[n].v)
                     ELSE Repr(seq[n]))
       \o ReprItems(seq, n + 1, isDict)
Repr(x) ==
  CASE x.t = "none"  -> "None"
    [] x.t = "int"   -> IntStr(x.v)
    [] x.t = "float" -> FloatStr(x.v)
    [] x.t = "str"   -> "'" \o x.v \o "'"
    [] x.t = "bool"  -> IF x.v THEN "True" ELSE "False"
    [] x.t = "list"  -> "[" \o ReprItems(x.v, 1, FALSE) \o "]"
    [] x.t = "dict"  -> "{" \o ReprItems(x.v, 1, TRUE) \o "}"

\* str(value): a str is itself, everything else is its repr.
Str(x) == IF x.t = "str" THEN x.v ELSE Repr(x)

\* `value == 0` / `value == 3` in Python: numbers compare by value across
\* int, float and bool (False == 0); a str never equals a number.
PyEqInt(x, n) ==
  CASE x.t = "int"   -> x.v = n
    [] x.t = "float" -> x.v = 10 * n
    [] x.t = "bool"  -> (IF x.v THEN 1 ELSE 0) = n
    [] OTHER         -> FALSE

\* bool(data) of `if data:`.
Truthy(x) ==
  CASE x.t = "none"  -> FALSE
    [] x.t = "int"   -> x.v # 0
    [] x.t = "float" -> x.v # 0
    [] x.t = "str"   -> x.v # ""
    [] x.t = "bool"  -> x.v
    [] x.t = "list"  -> Len(x.v) > 0
    [] x.t = "dict"  -> Len(x.v) > 0

\* _convert_valve_state(value)
convert_valve_state(value) ==
  IF PyEqInt(value, 0) THEN "CH"
  ELSE IF PyEqInt(value, 3) THEN "DHW"
  ELSE Str(value)

(***************************************************************************)
(* The metric table.                                                       *)
(***************************************************************************)
M(name, path) == [name |-> name, path |-> path]

topic_mappings == <<
  M("ashp_ambient_air_temp", <<K("curr"), K("AxenOutdoorTemp")>>),
  M("ashp_circuit1_calculated_set_temp", <<K("tilesParams"), I(29), I(0), I(0)>>),
  M("ashp_compressor_freq", <<K("curr"), K("AxenCompressorFreq")>>),
  M("ashp_fan_speed", <<K("tilesParams"), I(3), I(0), I(0)>>),
  M("ashp_flow_temp", <<K("curr"), K("AxenOutgoingTemp")>>),
  M("ashp_outlet_water_pressure", <<K("tilesParams"), I(76), I(0), I(0)>>),
  M("ashp_pump_active", <<K("curr"), K("AxenUpperPump")>>),
  M("ashp_return_temp", <<K("curr"), K("AxenReturnTemp")>>),
  M("ashp_target_temp", <<K("curr"), K("HeatSourceCalcPresetTemp")>>),
  M("ashp_work_state", <<K("curr"), K("AxenWorkState")>>),
  M("circuit1_thermostat", <<K("curr"), K("Circuit1thermostat")>>),
  M("dhw_temp", <<K("curr"), K("TempCWU")>>),
  M("outdoor_temp", <<K("curr"), K("TempWthr")>>),
  M("three_way_valve_state", <<K("curr"), K("flapValveStates")>>) >>

\* ha_discovery_configs: the keys the discovery sweep reads ("" when the
\* config has no device_class).
H(name, device_class, payload_on) ==
  [name |-> name, device_class |-> device_class, payload_on |-> payload_on]

ha_discovery_configs == <<
  H("ashp_ambient_air_temp", "temperature", FALSE),
  H("ashp_circuit1_calculated_set_temp", "temperature", FALSE),
  H("ashp_compressor_freq", "frequency", FALSE),
  H("ashp_fan_speed", "", FALSE),
  H("ashp_flow_temp", "temperature", FALSE),
  H("ashp_outlet_water_pressure", "pressure", FALSE),
  H("ashp_pump_active", "running", TRUE),
  H("ashp_return_temp", "temperature", FALSE),
  H("ashp_target_temp", "temperature", FALSE),
  H("ashp_work_state", "running", TRUE),
  H("circuit1_thermostat", "temperature", FALSE),
  H("dhw_temp", "temperature", FALSE),
  H("outdoor_temp", "temperature", FALSE),
  H("three_way_valve_state", "enum", FALSE) >>

NumMetrics == Len(topic_mappings)

\* MQTT_TOPIC_PREFIX (default) and the availability topic built from it.
mqtt_topic_prefix == "econet/"
availability_topic == mqtt_topic_prefix \o "availability"

\* The will the client holds: none, or the one registered by will_set in
\* __init__ before any connect().
NoWill == [topic |-> "", payload |-> "", retain |-> FALSE]
will_set_unretained ==
  [topic |-> availability_topic, payload |-> "offline", retain |-> FALSE]
will_set == [topic |-> availability_topic, payload |-> "offline", retain |-> TRUE]

(***************************************************************************)
(* Documents the endpoint may answer with (response.json()).               *)
(***************************************************************************)
Tile(val) == PList(<<PList(<<PList(<<val, PInt(1), PInt(0)>>)>>)>>)

CurrFull == PDict(<<
  Item("AxenOutdoorTemp", PFloat(52)), Item("AxenCompressorFreq", PInt(40)),
  Item("AxenOutgoingTemp", PFloat(351)), Item("AxenUpperPump", PInt(1)),
  Item("AxenReturnTemp", PFloat(300)), Item("HeatSourceCalcPresetTemp", PInt(35)),
  Item("AxenWorkState", PInt(0)), Item("Circuit1thermostat", PFloat(205)),
  Item("TempCWU", PFloat(481)), Item("TempWthr", PFloat(0 - 15)),
  Item("flapValveStates", PInt(3)) >>)

\* Every metric resolves.
DocFull == PDict(<<
  Item("curr", CurrFull),
  Item("tilesParams", PList([n \in 1..77 |-> Tile(PStr("24.0"))])) >>)

\* The end-to-end document of the specification: two curr keys, and only
\* tilesParams[29] holding a value.
DocPartial == PDict(<<
  Item("curr", PDict(<<Item("AxenOutdoorTemp", PFloat(52)),
                       Item("TempCWU", PFloat(481))>>)),
  Item("tilesParams",
       PList([n \in 1..30 |->
                IF n = 30 THEN PList(<<PList(<<PStr("21.0"), PInt(1), PInt(0)>>)>>)
                ELSE None])) >>)

\* Wrong shapes everywhere: curr is a list, tilesParams an object.
DocMismatch == PDict(<<
  Item("curr", PList(<<PInt(1), PInt(2)>>)),
  Item("tilesParams", PDict(<<Item("29", Tile(PStr("24.0")))>>)) >>)

\* The valve in the CH position, a null value, an empty array as a value.
DocValve == PDict(<<
  Item("curr", PDict(<<Item("flapValveStates", PInt(0)),
                       Item("TempCWU", None),
                       Item("TempWthr", PList(<<>>))>>)) >>)

Docs == <<DocFull, DocPartial, DocMismatch, DocValve, PDict(<<>>), None>>
NumDocs == Len(Docs)

(***************************************************************************)
(* Outcome of one mqtt_client.publish call: rc == MQTT_ERR_SUCCESS, another*)
(* rc, or an exception.  A fault pattern says which call of a sweep fails: *)
(* none (at = 0), the call for metric `at`, or every call (at = AllCalls). *)
(***************************************************************************)
AllCalls == NumMetrics + 1
FaultPatterns ==
  {[at |-> 0, mode |-> "fail"]}
    \cup [at : 1..AllCalls, mode : {"fail", "raise"}]
Outcome(f, n) == IF f.at = n \/ f.at = AllCalls THEN f.mode ELSE "ok"

(***************************************************************************)
(* _publish_metrics(data): one log entry per iteration of the for loop.    *)
(***************************************************************************)
\* The payload of lines 358-362.
Payload(topic_name, value) ==
  IF topic_name = "three_way_valve_state" THEN convert_valve_state(value)
  ELSE Str(value)

\* The iteration for metric n: `found` is `value is not None`, `calls` the
\* publish calls made, `counted` whether published_values got the metric.
MetricEntryRetained(n, data, f) ==
  LET m == topic_mappings[n]
      value == get_nested_value(data, m.path)
  IN  IF value.t # "none"
      THEN [name |-> m.name, found |-> TRUE,
            calls |-> <<[topic |-> mqtt_topic_prefix \o m.name,
                         payload |-> Payload(m.name, value),
                         retain |-> TRUE, rc |-> Outcome(f, n)]>>,
            counted |-> Outcome(f, n) = "ok"]
      ELSE [name |-> m.name, found |-> FALSE, calls |-> <<>>, counted |-> FALSE]
MetricEntry(n, data, f) ==
  LET m == topic_mappings[n]
      value == get_nested_value(data, m.path)
  IN  IF value.t # "none"
      THEN [name |-> m.name, found |-> TRUE,
            calls |-> <<[topic |-> mqtt_topic_prefix \o m.name,
                         payload |-> Payload(m.name, value),
                         retain |-> FALSE, rc |-> Outcome(f, n)]>>,
            counted |-> Outcome(f, n) = "ok"]
      ELSE [name |-> m.name, found |-> FALSE, calls |-> <<>>, counted |-> FALSE]

\* Where the for loop goes after the else branch (the warning of line 372)
\* and after a publish that failed or raised (lines 368, 370).
AfterSkipAbort(n) == NumMetrics + 1
AfterSkip(n) == n + 1
AfterFailureAbort(n) == NumMetrics + 1
AfterFailure(n) == n + 1

RECURSIVE MetricsFrom(_, _, _)
MetricsFrom(n, data, f) ==
  IF n > NumMetrics THEN <<>>
  ELSE LET e == MetricEntry(n, data, f)
       IN  <<e>> \o MetricsFrom(IF ~e.found THEN AfterSkip(n)
                                ELSE IF ~e.counted THEN AfterFailure(n)
                                ELSE n + 1, data, f)

publish_metrics(data, f) == MetricsFrom(1, data, f)

(***************************************************************************)
(* _publish_ha_discovery(): one log entry per config.                      *)
(***************************************************************************)
Component(config) ==
  IF config.device_class = "running" \/ config.payload_on
  THEN "binary_sensor" ELSE "sensor"

\* discovery_payload['expire_after']: <<>> when the key is not set.
ExpireAfterAlways(config, interval) == <<interval * 4>>
ExpireAfter(config, interval) ==
  IF Component(config) = "sensor" THEN <<interval * 4>> ELSE <<>>

DiscoveryEntry(n, interval, f) ==
  LET config == ha_discovery_configs[n]
  IN  [name |-> config.name,
       component |-> Component(config),
       calls |-> <<[topic |-> "homeassistant/" \o Component(config) \o "/econet_"
                                \o config.name \o "/config",
                    state_topic |-> mqtt_topic_prefix \o config.name,
                    expire_after |-> ExpireAfter(config, interval),
                    retain |-> TRUE, rc |-> Outcome(f, n)]>>]

AfterDiscoveryFailureAbort(n) == NumMetrics + 1
AfterDiscoveryFailure(n) == n + 1

RECURSIVE DiscoveryFrom(_, _, _)
DiscoveryFrom(n, interval, f) ==
  IF n > Len(ha_discovery_configs) THEN <<>>
  ELSE <<DiscoveryEntry(n, interval, f)>>
       \o DiscoveryFrom(IF Outcome(f, n) # "ok" THEN AfterDiscoveryFailure(n)
                        ELSE n + 1, interval, f)

publish_ha_discovery(interval, f) == DiscoveryFrom(1, interval, f)

(***************************************************************************)
(* The state.                                                              *)
(***************************************************************************)
VARIABLES
  pc,               \* the statement of main()/run() the main thread is at
  running,          \* self.running
  polling_interval, \* self.polling_interval
  ha_discovery,     \* self.ha_discovery
  will,             \* the will the client holds (will_set)
  data,             \* `data` of run(): index into Docs, 0 when unset
  waited,           \* iterations of the wait loop completed in this cycle
  err,              \* the exception raised in the try body of run()
  connect_result,   \* what connect_mqtt() returned
  exit_status,      \* <<status>> once the process has ended by itself
  loop_thread,      \* the network thread runs (loop_start .. loop_stop)
  session,          \* the connection as the broker sees it
  connack,          \* <<rc>>: a CONNACK the network thread has not handled
  disc_pending,     \* a connection loss the network thread has not handled
  reconnects,       \* automatic reconnects made so far
  broker_will,      \* the will the broker holds for the session
  broker_avail,     \* the broker's retained value of availability_topic
  avail_pubs,       \* publish calls to availability_topic, in call order
  sweep,            \* the publish calls of the sweep that has just returned
  fetch_outcome,    \* how the last requests.get / response.json() ended
  fetched,          \* a fetch has been made
  discovered,       \* discovery sweeps issued (2 stands for "2 or more")
  since_stop,       \* fetches, sweeps, sleeps completed since running = False
  call              \* a method called on its own: its arguments and result

vars == <<pc, running, polling_interval, ha_discovery, will, data, waited, err,
          connect_result, exit_status, loop_thread, session, connack,
          disc_pending, reconnects, broker_will, broker_avail, avail_pubs,
          sweep, fetch_outcome, fetched, discovered, since_stop, call>>

config_vars == <<polling_interval, ha_discovery, will>>
transport_vars == <<loop_thread, session, connack, disc_pending, reconnects,
                    broker_will, broker_avail>>
history_vars == <<fetch_outcome, fetched, discovered, since_stop>>

NoSweep == [kind |-> "none", log |-> <<>>]
PublishOutcomes == {"ok", "fail", "raise"}
\* CONNACK return codes: 0 accepted, 5 refused (not authorised).
ConnackCodes == {0, 5}

Saturate(n) == IF n < 2 THEN n + 1 ELSE n
Count(what) ==
  IF running THEN since_stop
  ELSE [since_stop EXCEPT ![what] = Saturate(since_stop[what])]

Alive == pc \notin {"done", "exited", "killed"}

\* No method is called on its own.
NoCall == [fn |-> "none"]

\* The state after __init__ (lines 25-196).
Constructed ==
  /\ pc = "connect"
  /\ running = TRUE
  /\ polling_interval \in 0..MaxInterval
  /\ ha_discovery \in BOOLEAN
  /\ will = will_set
  /\ data = 0
  /\ waited = 0
  /\ err = "none"
  /\ connect_result = "none"
  /\ exit_status = <<>>
  /\ loop_thread = FALSE
  /\ session = "none"
  /\ connack = <<>>
  /\ disc_pending = FALSE
  /\ reconnects = 0
  /\ broker_will = NoWill
  /\ broker_avail = "none"
  /\ avail_pubs = <<>>
  /\ sweep = NoSweep
  /\ fetch_outcome = "none"
  /\ fetched = FALSE
  /\ discovered = 0
  /\ since_stop = [fetch |-> 0, sweep |-> 0, sleep |-> 0]

Init == Constructed /\ call = NoCall

(***************************************************************************)
(* The broker's side of a CONNECT and of the end of a connection.          *)
(***************************************************************************)
\* The broker answers a CONNECT with rc: on 0 it opens the session and
\* stores the client's will.
BrokerConnect(rc) ==
  /\ session' = IF rc = 0 THEN "accepted" ELSE "refused"
  /\ broker_will' = IF rc = 0 THEN will ELSE NoWill
  /\ connack' = <<rc>>

\* A connection that ends without DISCONNECT: the broker publishes the will
\* it holds.
BrokerAvailAfterLoss ==
  IF session = "accepted" /\ broker_will # NoWill /\ broker_will.retain
  THEN broker_will.payload ELSE broker_avail

\* A publish call to availability_topic reaches the broker when it is
\* accepted by the client and the session is open.
BrokerAvailAfterPublish(payload, outcome) ==
  IF outcome = "ok" /\ session = "accepted" THEN payload ELSE broker_avail

(***************************************************************************)
(* run(), statement by statement.                                          *)
(***************************************************************************)
\* Lines 404-406: where run() goes on the result of connect_mqtt().
AfterConnectIgnored(ok) == "discovery"
AfterConnect(ok) == IF ok THEN "discovery" ELSE "exited"

\* connect_mqtt() and the test of its result: connect() raises, or it opens
\* the connection, sends CONNECT and loop_start() starts the network thread.
ConnectMqtt ==
  /\ pc = "connect"
  /\ \/ /\ connect_result' = "False"
        /\ pc' = AfterConnect(FALSE)
        /\ exit_status' = IF AfterConnect(FALSE) = "exited" THEN <<1>> ELSE <<>>
        /\ UNCHANGED transport_vars
     \/ /\ connect_result' = "True"
        /\ pc' = AfterConnect(TRUE)
        /\ \E rc \in ConnackCodes : BrokerConnect(rc)
        /\ loop_thread' = TRUE
        /\ UNCHANGED <<exit_status, disc_pending, reconnects, broker_avail>>
  /\ UNCHANGED <<running, config_vars, call, data, waited, err, avail_pubs, sweep,
                 history_vars>>

\* Line 409: _publish_ha_discovery().
PublishHaDiscovery ==
  /\ pc = "discovery"
  /\ IF ha_discovery
     THEN /\ \E f \in FaultPatterns :
               sweep' = [kind |-> "discovery",
                         log |-> publish_ha_discovery(polling_interval, f)]
          /\ discovered' = Saturate(discovered)
     ELSE UNCHANGED <<sweep, discovered>>
  /\ pc' = "loop"
  /\ UNCHANGED <<running, config_vars, call, data, waited, err, connect_result,
                 exit_status, transport_vars, avail_pubs, fetch_outcome,
                 fetched, since_stop>>

\* Line 412: while self.running.
LoopCheck ==
  /\ pc = "loop"
  /\ pc' = IF running THEN "fetch" ELSE "finally"
  /\ sweep' = NoSweep
  /\ UNCHANGED <<running, config_vars, call, data, waited, err, connect_result,
                 exit_status, transport_vars, avail_pubs, history_vars>>

\* Lines 248 and 251: logger.error(msg, file=sys.stderr).  Logger.error takes
\* no keyword `file`: the call raises TypeError inside the except clause.
LogFetchErrorReturns == "none"
LogFetchError == "TypeError"

\* Lines 414-419: data = self._fetch_econet_data() and `if data`.
Fetch ==
  /\ pc = "fetch"
  /\ fetched' = TRUE
  /\ since_stop' = Count("fetch")
  /\ \/ \E d \in 1..NumDocs :
          /\ fetch_outcome' = "ok"
          /\ data' = d
          /\ pc' = IF Truthy(Docs[d]) THEN "publish" ELSE "wait"
          /\ err' = err
     \/ \E e \in {"RequestException", "JSONDecodeError"} :
          /\ fetch_outcome' = e
          /\ data' = 0
          /\ err' = LogFetchError
          /\ pc' = IF LogFetchError = "none" THEN "wait" ELSE "except"
  /\ UNCHANGED <<running, config_vars, call, waited, connect_result, exit_status,
                 transport_vars, avail_pubs, sweep, discovered>>

\* Line 417: self._publish_metrics(data).
PublishMetrics ==
  /\ pc = "publish"
  /\ \E f \in FaultPatterns :
       sweep' = [kind |-> "metrics", log |-> publish_metrics(Docs[data], f)]
  /\ pc' = "wait"
  /\ since_stop' = Count("sweep")
  /\ UNCHANGED <<running, config_vars, call, data, waited, err, connect_result,
                 exit_status, transport_vars, avail_pubs, fetch_outcome,
                 fetched, discovered>>

\* Line 423: `if not self.running: break`.
WaitBreaksNever(r) == FALSE
WaitBreaks(r) == ~r

\* Where run() goes when the wait loop ends (back to line 412).
AfterWaitFetch == "fetch"
AfterWaitRediscover == "discovery"
AfterWait == "loop"

\* Lines 422-424: the next iteration of for _ in range(polling_interval).
WaitCheck ==
  /\ pc = "wait"
  /\ IF waited < polling_interval /\ ~WaitBreaks(running)
     THEN pc' = "sleep" /\ waited' = waited
     ELSE pc' = AfterWait /\ waited' = 0
  /\ sweep' = NoSweep
  /\ data' = 0
  /\ UNCHANGED <<running, config_vars, call, err, connect_result, exit_status,
                 transport_vars, avail_pubs, history_vars>>

\* Line 425: time.sleep(1).
Sleep ==
  /\ pc = "sleep"
  /\ waited' = waited + 1
  /\ pc' = "wait"
  /\ since_stop' = Count("sleep")
  /\ UNCHANGED <<running, config_vars, call, data, err, connect_result, exit_status,
                 transport_vars, avail_pubs, sweep, fetch_outcome, fetched,
                 discovered>>

\* Lines 427-430: where the except clause of run() leaves to.
AfterExceptContinue == "loop"
AfterExceptReturn == "done"
AfterExcept == "finally"

\* Lines 427-428: except Exception, logged.
Except ==
  /\ pc = "except"
  /\ pc' = AfterExcept
  /\ exit_status' = IF AfterExcept = "done" THEN <<0>> ELSE exit_status
  /\ UNCHANGED <<running, config_vars, call, data, waited, err, connect_result,
                 transport_vars, avail_pubs, sweep, history_vars>>

\* Lines 393-396 of disconnect_mqtt(): publish "offline", retained.
PublishOffline ==
  /\ pc = "finally"
  /\ \E outcome \in PublishOutcomes :
       /\ avail_pubs' = Append(avail_pubs, [payload |-> "offline", retain |-> TRUE,
                                            by |-> "disconnect_mqtt"])
       /\ broker_avail' = BrokerAvailAfterPublish("offline", outcome)
  /\ pc' = "loop_stop"
  /\ UNCHANGED <<running, config_vars, call, data, waited, err, connect_result,
                 exit_status, loop_thread, session, connack, disc_pending,
                 reconnects, broker_will, sweep, history_vars>>

\* Line 397: loop_stop().
LoopStop ==
  /\ pc = "loop_stop"
  /\ loop_thread' = FALSE
  /\ pc' = "disconnect"
  /\ UNCHANGED <<running, config_vars, call, data, waited, err, connect_result,
                 exit_status, session, connack, disc_pending, reconnects,
                 broker_will, broker_avail, avail_pubs, sweep, history_vars>>

\* Line 398: disconnect(), then run() and main() return.  A DISCONNECT
\* makes the broker drop the will.
Disconnect ==
  /\ pc = "disconnect"
  /\ session' = IF session = "accepted" THEN "closed" ELSE session
  /\ broker_will' = IF session = "accepted" THEN NoWill ELSE broker_will
  /\ pc' = "done"
  /\ exit_status' = <<0>>
  /\ UNCHANGED <<running, config_vars, call, data, waited, err, connect_result,
                 loop_thread, connack, disc_pending, reconnects, broker_avail,
                 avail_pubs, sweep, history_vars>>

\* _signal_handler: SIGTERM or SIGINT, between any two statements.
SignalHandler ==
  /\ Alive
  /\ running
  /\ running' = FALSE
  /\ UNCHANGED <<pc, config_vars, call, data, waited, err, connect_result,
                 exit_status, transport_vars, avail_pubs, sweep, history_vars>>

(***************************************************************************)
(* The network thread and the callbacks it runs.                           *)
(***************************************************************************)
\* Line 205: if rc == 0.
ConnectOkAlways(rc) == TRUE
ConnectOk(rc) == rc = 0

\* _on_mqtt_connect(client, userdata, flags, rc)
OnMqttConnect ==
  /\ loop_thread
  /\ connack # <<>>
  /\ connack' = <<>>
  /\ IF ConnectOk(connack[1])
     THEN \E outcome \in PublishOutcomes :
            /\ avail_pubs' = Append(avail_pubs, [payload |-> "online", retain |-> TRUE,
                                                 by |-> "on_mqtt_connect"])
            /\ broker_avail' = BrokerAvailAfterPublish("online", outcome)
     ELSE UNCHANGED <<avail_pubs, broker_avail>>
  /\ UNCHANGED <<pc, running, config_vars, call, data, waited, err, connect_result,
                 exit_status, loop_thread, session, disc_pending, reconnects,
                 broker_will, sweep, history_vars>>

\* _on_mqtt_disconnect(client, userdata, rc)
OnMqttDisconnect ==
  /\ loop_thread
  /\ disc_pending
  /\ disc_pending' = FALSE
  /\ UNCHANGED <<pc, running, config_vars, call, data, waited, err, connect_result,
                 exit_status, loop_thread, session, connack, reconnects,
                 broker_will, broker_avail, avail_pubs, sweep, history_vars>>

\* The network thread connects again after a loss or a refusal.
Reconnect ==
  /\ loop_thread
  /\ session \in {"lost", "refused"}
  /\ connack = <<>>
  /\ ~disc_pending
  /\ reconnects < MaxReconnects
  /\ reconnects' = reconnects + 1
  /\ \E rc \in ConnackCodes : BrokerConnect(rc)
  /\ UNCHANGED <<pc, running, config_vars, call, data, waited, err, connect_result,
                 exit_status, loop_thread, disc_pending, broker_avail,
                 avail_pubs, sweep, history_vars>>

(***************************************************************************)
(* The environment.                                                        *)
(***************************************************************************)
\* The connection drops: the broker publishes the will, the network thread
\* is told of the loss.
ConnectionLost ==
  /\ Alive
  /\ session = "accepted"
  /\ session' = "lost"
  /\ broker_avail' = BrokerAvailAfterLoss
  /\ broker_will' = NoWill
  /\ connack' = <<>>
  /\ disc_pending' = loop_thread
  /\ UNCHANGED <<pc, running, config_vars, call, data, waited, err, connect_result,
                 exit_status, loop_thread, reconnects, avail_pubs, sweep,
                 history_vars>>

\* The process is killed (SIGKILL, power loss): no statement runs any more
\* and what its threads held is gone.
Kill ==
  /\ Alive
  /\ pc' = "killed"
  /\ loop_thread' = FALSE
  /\ session' = IF session = "accepted" THEN "lost" ELSE session
  /\ broker_avail' = BrokerAvailAfterLoss
  /\ broker_will' = NoWill
  /\ data' = 0
  /\ waited' = 0
  /\ sweep' = NoSweep
  /\ connack' = <<>>
  /\ disc_pending' = FALSE
  /\ UNCHANGED <<running, config_vars, call, err, connect_result, exit_status,
                 reconnects, avail_pubs, history_vars>>

Next ==
  \/ ConnectMqtt
  \/ PublishHaDiscovery
  \/ LoopCheck
  \/ Fetch
  \/ PublishMetrics
  \/ WaitCheck
  \/ Sleep
  \/ Except
  \/ PublishOffline
  \/ LoopStop
  \/ Disconnect
  \/ SignalHandler
  \/ OnMqttConnect
  \/ OnMqttDisconnect
  \/ Reconnect
  \/ ConnectionLost
  \/ Kill

Spec == Init /\ [][Next]_vars

\* The positions of the main thread in run(), and a step of the main
\* thread: run() goes from one statement to another (every action of the
\* main thread moves pc, and only Kill moves it otherwise).
Statements ==
  {"connect", "discovery", "loop", "fetch", "publish", "wait", "sleep",
   "except", "finally", "loop_stop", "disconnect", "done", "exited"}
MainThread == Alive /\ pc' \in Statements \ {pc}

\* The main thread keeps running while it has a statement to run: each
\* call it makes returns (the fetch has a timeout, line 243; publish only
\* queues the message; sleep(1) ends after a second).
LiveSpec == Spec /\ WF_pc(MainThread)

(***************************************************************************)
(* The methods that compute a value, called on their own on a constructed  *)
(* publisher: the arguments are drawn from bounded sets, the action makes  *)
(* the call and keeps its result.                                          *)
(***************************************************************************)
\* Longest path given to _get_nested_value.
MaxPathLen == 3

\* Documents for _get_nested_value: objects, arrays and scalars nested in
\* each other, an empty array, a null, an object key that reads as a number.
ResolveDocs == <<
  PDict(<<Item("a", PDict(<<Item("b", PInt(1)), Item("0", PStr("x"))>>)),
          Item("b", PList(<<PInt(10), PList(<<PList(<<PInt(7)>>), PInt(21)>>),
                            PList(<<>>), PDict(<<Item("a", None)>>)>>)),
          Item("0", PStr("s"))>>),
  PList(<<PDict(<<Item("a", PFloat(52))>>), PList(<<PBool(TRUE)>>)>>),
  PInt(3) >>

PathSegments == {K("a"), K("b"), K("0"), I(0), I(1), I(3), I(0 - 1)}

RECURSIVE PathsUpTo(_)
PathsUpTo(n) ==
  IF n = 0 THEN {<<>>}
  ELSE PathsUpTo(n - 1)
       \cup {Append(p, seg) : p \in {q \in PathsUpTo(n - 1) : Len(q) = n - 1},
                              seg \in PathSegments}

ResolveCalls ==
  [fn : {"_get_nested_value"}, doc : 1..Len(ResolveDocs),
   path : PathsUpTo(MaxPathLen), out : {<<>>}]

\* value = self._get_nested_value(data, json_path)
CallGetNestedValue ==
  /\ call.fn = "_get_nested_value"
  /\ call.out = <<>>
  /\ call' = [call EXCEPT
               !.out = <<get_nested_value(ResolveDocs[call.doc], call.path)>>]
  /\ UNCHANGED <<pc, running, config_vars, data, waited, err, connect_result,
                 exit_status, transport_vars, avail_pubs, sweep, history_vars>>

\* Values _get_nested_value hands to the payload conversion (never None,
\* line 355): numbers, strings, booleans, an array and an object.
PayloadValues == <<
  PInt(0), PInt(3), PInt(7), PInt(1), PInt(0 - 3),
  PFloat(0), PFloat(30), PFloat(245), PFloat(3),
  PStr("0"), PStr("3"), PStr("24.0"), PStr(""),
  PBool(FALSE), PBool(TRUE),
  PList(<<>>), PDict(<<Item("a", PInt(0))>>) >>

PayloadCalls ==
  [fn : {"payload"}, metric : 1..NumMetrics, value : 1..Len(PayloadValues),
   out : {<<>>}]

\* The payload of one metric (lines 358-362).
CallPayload ==
  /\ call.fn = "payload"
  /\ call.out = <<>>
  /\ call' = [call EXCEPT
               !.out = <<Payload(topic_mappings[call.metric].name,
                                 PayloadValues[call.value])>>]
  /\ UNCHANGED <<pc, running, config_vars, data, waited, err, connect_result,
                 exit_status, transport_vars, avail_pubs, sweep, history_vars>>

\* Poll cycles run one after the other on documents fetched in that order,
\* each sweep with its own publish results.
NumCycles == 2
CycleCalls ==
  [fn : {"cycles"}, docs : [1..NumCycles -> 1..NumDocs],
   faults : [1..NumCycles -> {f \in FaultPatterns : f.at \in {0, AllCalls}}],
   out : {<<>>}]

\* Line 414: the document `data` is bound to in cycle k.
CycleDataStale(k) == Docs[call.docs[1]]
CycleData(k) == Docs[call.docs[k]]

\* Lines 414-419: data = self._fetch_econet_data(); if data:
\* self._publish_metrics(data).  out gets the sweep of this cycle.
CallPollCycle ==
  /\ call.fn = "cycles"
  /\ Len(call.out) < NumCycles
  /\ LET k == Len(call.out) + 1
         doc == CycleData(k)
     IN  call' = [call EXCEPT
                   !.out = Append(@, IF Truthy(doc)
                                     THEN publish_metrics(doc, call.faults[k])
                                     ELSE <<>>)]
  /\ UNCHANGED <<pc, running, config_vars, data, waited, err, connect_result,
                 exit_status, transport_vars, avail_pubs, sweep, history_vars>>

PureInit ==
  /\ Constructed
  /\ polling_interval = 0
  /\ ha_discovery
  /\ \/ call \in ResolveCalls
     \/ call \in PayloadCalls
     \/ call \in CycleCalls

PureNext ==
  \/ CallGetNestedValue
  \/ CallPayload
  \/ CallPollCycle

PureSpec == PureInit /\ [][PureNext]_vars

(***************************************************************************)
(* Properties.                                                             *)
(***************************************************************************)
LoopPcs == {"loop", "fetch", "publish", "wait", "sleep"}
ShutdownPcs == {"finally", "loop_stop", "disconnect", "done"}
FetchFailed == fetch_outcome \in {"RequestException", "JSONDecodeError"}

Online == [payload |-> "online", retain |-> TRUE, by |-> "on_mqtt_connect"]
Offline == [payload |-> "offline", retain |-> TRUE, by |-> "disconnect_mqtt"]
OfflineIssued == \E n \in 1..Len(avail_pubs) : avail_pubs[n] = Offline

\* C1: a failed fetch (network error, bad status, malformed JSON) is
\* recovered inside the cycle: no error is raised into run(), no telemetry
\* is published by that cycle, and while no shutdown is requested the run
\* stays in the poll loop (wait step, then the next fetch).
C1_FetchFailureRecovered ==
  (FetchFailed /\ Alive) =>
    /\ err = "none"
    /\ sweep.kind # "metrics"
    /\ running => pc \in LoopPcs

\* C2 as claimed: an error raised in the cycle body while the shutdown flag
\* is not set leaves the run in the poll loop (or on its way back to it).
C2_ErrorNeverEndsLoop ==
  (err # "none" /\ running /\ Alive) => pc \in LoopPcs \cup {"except"}

\* C2 as amended: an error raised in the cycle body is caught and logged at
\* the loop boundary and is not propagated, but it ends the poll loop: the
\* run is in the except clause or in the shutdown path from then on, no
\* later cycle starts, and run() returns normally (exit status 0).
C2_ErrorEndsLoopCaught ==
  err # "none" =>
    /\ pc \in {"except", "killed"} \cup ShutdownPcs
    /\ pc = "done" => exit_status = <<0>>
    /\ sweep.kind # "metrics"
    /\ data = 0

C2_Witness == err # "none" /\ running /\ pc = "done"

\* C3: on every exit of the poll loop (flag observed, or an error out of
\* the body) run() issues the retained "offline" publish, only then stops
\* the network thread, only then disconnects, all before it returns; the
\* error does not leave run().
C3_OfflineThenDisconnect ==
  /\ pc \in {"loop_stop", "disconnect", "done"} => OfflineIssued
  /\ pc \in {"disconnect", "done"} => ~loop_thread
  /\ pc = "done" => session # "accepted" /\ exit_status = <<0>>
  /\ pc \in LoopPcs \cup {"except", "finally", "loop_stop"} => loop_thread
  /\ pc \in LoopPcs \cup {"except", "finally"} => ~OfflineIssued
  /\ pc \in LoopPcs \cup {"except", "finally", "loop_stop", "disconnect"}
       => session # "closed"
  /\ (err # "none" /\ ~Alive) => pc \in {"done", "killed"}

C3_Witness ==
  /\ pc = "done" /\ err # "none" /\ running
  /\ OfflineIssued /\ ~loop_thread /\ session = "closed"

\* C4: the will (retained "offline" on the availability topic) is held by
\* the broker for every open session, so a connection that ends abruptly
\* (process killed, connection lost) leaves the broker's retained
\* availability "offline" with no publish call by the process; the
\* disconnect handler publishes nothing and changes no state.
C4_LastWillOffline ==
  /\ [](session = "accepted" =>
          broker_will = [topic |-> "econet/availability", payload |-> "offline",
                         retain |-> TRUE])
  /\ [][(session = "accepted" /\ session' = "lost") =>
          (broker_avail' = "offline" /\ avail_pubs' = avail_pubs)]_vars
  /\ [][(disc_pending /\ ~disc_pending' /\ pc' # "killed") =>
          UNCHANGED <<pc, running, config_vars, call, data, waited, err, connect_result,
                      exit_status, loop_thread, session, connack, reconnects,
                      broker_will, broker_avail, avail_pubs, sweep,
                      history_vars>>]_vars

C4_Witness ==
  /\ pc = "killed" /\ broker_avail = "offline"
  /\ avail_pubs = <<Online>>

\* C5: a connect notification with rc = 0 (also after an automatic
\* reconnect) makes exactly one publish call, retained "online" on the
\* availability topic; one with rc # 0 makes none, leaves the retained
\* availability as it was and not "online", and starts no connect or
\* reconnect.
OnConnectStep == connack # <<>> /\ connack' = <<>> /\ session' = session /\ pc' = pc
C5_OnConnectPublishesOnline ==
  [][OnConnectStep =>
       IF connack[1] = 0
       THEN avail_pubs' = Append(avail_pubs, Online)
       ELSE /\ avail_pubs' = avail_pubs
            /\ broker_avail' = broker_avail
            /\ broker_avail # "online"
            /\ reconnects' = reconnects
            /\ connect_result' = connect_result]_vars

C5_Witness == reconnects > 0 /\ avail_pubs = <<Online, Online>> /\ connack = <<>>

\* C6: a publish sweep processes every metric of the table exactly once, in
\* table order, whatever happened to the earlier ones: an absent value
\* makes no publish call, a present one exactly one call to its topic, a
\* call that fails or raises is not counted as published; the sweep raises
\* nothing and the run goes on to the wait step, also when nothing was
\* published.
SweepEntryOk(e, n) ==
  LET m == topic_mappings[n]
  IN  /\ e.name = m.name
      /\ e.found = (get_nested_value(Docs[data], m.path).t # "none")
      /\ ~e.found => e.calls = <<>> /\ ~e.counted
      /\ e.found => /\ Len(e.calls) = 1
                    /\ e.calls[1].topic = "econet/" \o m.name
                    /\ e.counted = (e.calls[1].rc = "ok")
C6_SweepIsolatesMetrics ==
  sweep.kind = "metrics" =>
    /\ Len(sweep.log) = 14
    /\ \A n \in 1..Len(sweep.log) : n <= 14 /\ SweepEntryOk(sweep.log[n], n)
    /\ err = "none"
    /\ pc = "wait"

\* An absent metric and a failed publish, each followed by a later metric
\* that is published.
C6_Witness ==
  /\ sweep.kind = "metrics"
  /\ \E a, b, c \in 1..Len(sweep.log) :
       /\ a < c /\ b < c
       /\ ~sweep.log[a].found
       /\ sweep.log[b].found /\ ~sweep.log[b].counted
       /\ sweep.log[c].counted

\* C7: when connect_mqtt() fails, the process exits with status 1 at once:
\* no network thread, no fetch, no discovery, telemetry or availability
\* publish call is made in that run.
C7_ConnectFailureExits ==
  connect_result = "False" =>
    /\ pc = "exited"
    /\ exit_status = <<1>>
    /\ ~fetched /\ fetch_outcome = "none"
    /\ discovered = 0 /\ sweep = NoSweep
    /\ avail_pubs = <<>>
    /\ ~loop_thread /\ session = "none"

C7_Witness == pc = "exited" /\ connect_result = "False" /\ exit_status = <<1>>

\* C8: with discovery enabled the discovery sweep is issued exactly once in
\* a run that connects, with one call per metric, before the first fetch
\* (hence before any telemetry), and never again, neither in a later cycle
\* nor on a reconnect notification; with discovery disabled it is never
\* issued.
C8_DiscoveryOnce ==
  /\ discovered <= 1
  /\ ~ha_discovery => discovered = 0 /\ sweep.kind # "discovery"
  /\ (ha_discovery /\ pc \in LoopPcs \cup {"except"} \cup ShutdownPcs)
       => discovered = 1
  /\ (ha_discovery /\ fetched) => discovered = 1
  /\ sweep.kind = "discovery" =>
       /\ ~fetched
       /\ Len(sweep.log) = 14
       /\ \A n \in 1..Len(sweep.log) : Len(sweep.log[n].calls) = 1

\* A second cycle was reached, after a reconnect notification.
C8_Witness ==
  /\ ha_discovery /\ discovered = 1
  /\ reconnects > 0 /\ avail_pubs = <<Online, Online>>
  /\ pc = "publish" /\ polling_interval > 0

\* C9: no discovery publish is issued before on_mqtt_connect has been
\* called with rc = 0 for the initial connection.
C9_DiscoveryAfterConnack ==
  discovered > 0 => (avail_pubs # <<>> /\ avail_pubs[1] = Online)

\* C10: after running becomes False the loop is left after at most one more
\* sleep of one second, or at most one fetch and one publish sweep already
\* under way, whatever the poll interval; the handler only clears the flag,
\* it aborts nothing.
C10_ShutdownLatency ==
  /\ [](~running =>
          /\ since_stop.sleep <= 1 /\ since_stop.fetch <= 1 /\ since_stop.sweep <= 1
          /\ since_stop.sleep = 1 => since_stop.fetch = 0 /\ since_stop.sweep = 0
          /\ pc = "sleep" => since_stop.sleep = 0)
  /\ [][(running /\ ~running') =>
          UNCHANGED <<pc, data, waited, sweep, err, transport_vars, avail_pubs,
                      fetch_outcome>>]_vars

C10_Witness ==
  /\ ~running /\ pc = "finally" /\ polling_interval = MaxInterval
  /\ since_stop.fetch = 1 /\ since_stop.sweep = 1 /\ since_stop.sleep = 0

(***************************************************************************)
(* Properties of _get_nested_value.                                        *)
(***************************************************************************)
\* The position (1-based) a segment addresses in an array, <<>> when none.
\* Strict: an integer index in 0..length-1.  Otherwise also as Python
\* subscripts do: -length..-1 from the end, and a str key that reads as an
\* integer like that integer.
SegInt(seg) ==
  IF seg.k = "int" THEN <<seg.i>>
  ELSE IF seg.s = "0" THEN <<0>>
  ELSE IF seg.s = "1" THEN <<1>>
  ELSE IF seg.s = "2" THEN <<2>>
  ELSE IF seg.s = "-1" THEN <<0 - 1>>
  ELSE <<>>
ArrayPos(arr, seg, strict) ==
  IF strict
  THEN IF seg.k = "int" /\ seg.i >= 0 /\ seg.i < Len(arr.v) THEN <<seg.i + 1>> ELSE <<>>
  ELSE IF SegInt(seg) = <<>> THEN <<>>
  ELSE LET j == SegInt(seg)[1]
       IN  IF j >= 0 /\ j < Len(arr.v) THEN <<j + 1>>
           ELSE IF j < 0 /\ j >= 0 - Len(arr.v) THEN <<Len(arr.v) + j + 1>>
           ELSE <<>>

\* The value a path addresses in a document: <<value>>, or <<>> when some
\* segment meets a missing key, an index out of range or a value of the
\* wrong kind.
RECURSIVE Addressed(_, _, _, _)
Addressed(cur, path, n, strict) ==
  IF n > Len(path) THEN <<cur>>
  ELSE LET seg == path[n]
       IN  IF cur.t = "dict"
           THEN IF seg.k = "str" /\ \E m \in 1..Len(cur.v) : cur.v[m].k = seg.s
                THEN Addressed(cur.v[CHOOSE m \in 1..Len(cur.v) : cur.v[m].k = seg.s].v,
                               path, n + 1, strict)
                ELSE <<>>
           ELSE IF cur.t = "list"
           THEN IF ArrayPos(cur, seg, strict) # <<>>
                THEN Addressed(cur.v[ArrayPos(cur, seg, strict)[1]], path, n + 1, strict)
                ELSE <<>>
           ELSE <<>>

Resolved == call.fn = "_get_nested_value" /\ call.out # <<>>
CallAddressed(strict) == Addressed(ResolveDocs[call.doc], call.path, 1, strict)

\* C11 as claimed: a path with a missing key, an index outside 0..length-1
\* or a segment/value type mismatch (object by integer, array by string
\* key, scalar by anything) at any position resolves to absent.
C11_BadPathAbsent ==
  (Resolved /\ CallAddressed(TRUE) = <<>>) => call.out[1] = None

\* C11 as amended: the same with Python's subscripts: absent for a missing
\* key, an index outside -length..length-1, an object addressed by an
\* integer, an array addressed by a string key that does not read as an
\* integer in that range, and a scalar addressed by any segment; never an
\* error.
C11_BadPathAbsentPython ==
  /\ call.fn = "_get_nested_value" => err = "none" /\ pc = "connect"
  /\ (Resolved /\ CallAddressed(FALSE) = <<>>) => call.out[1] = None

\* The mismatch is at the second and at the last position of a path.
C11_Witness ==
  /\ Resolved /\ call.out[1] = None /\ Len(call.path) = 3
  /\ CallAddressed(FALSE) = <<>>
  /\ Addressed(ResolveDocs[call.doc], SubSeq(call.path, 1, 2), 1, FALSE) # <<>>

\* C12: a path made only of existing keys and in-range indices resolves to
\* exactly the addressed value, or to its element 0 when the addressed
\* value is a non-empty array (one unwrap only).
C12_GoodPathExact ==
  (Resolved /\ CallAddressed(TRUE) # <<>>) =>
    LET v == CallAddressed(TRUE)[1]
    IN  call.out[1] = IF v.t = "list" /\ Len(v.v) > 0 THEN v.v[1] ELSE v

\* The addressed value is an array whose element 0 is an array again.
C12_Witness ==
  /\ Resolved /\ Len(call.path) >= 2
  /\ CallAddressed(TRUE) # <<>>
  /\ CallAddressed(TRUE)[1].t = "list"
  /\ call.out[1] = PList(<<PInt(7)>>)

(***************************************************************************)
(* Properties of the payload conversion.                                   *)
(***************************************************************************)
PayloadMade == call.fn = "payload" /\ call.out # <<>>
\* The value is the number n (as an integer or as a float).
IsNumber(x, n) == (x.t = "int" /\ x.v = n) \/ (x.t = "float" /\ x.v = 10 * n)

\* C13: the payload of three_way_valve_state is "CH" for the value 0, "DHW"
\* for the value 3 and the value's own string form for every other value;
\* the payload of every other metric is the plain string form of the value.
C13_ValveDecode ==
  PayloadMade =>
    LET value == PayloadValues[call.value]
    IN  call.out[1] =
          IF topic_mappings[call.metric].name # "three_way_valve_state"
          THEN Str(value)
          ELSE IF IsNumber(value, 0) THEN "CH"
          ELSE IF IsNumber(value, 3) THEN "DHW"
          ELSE Str(value)

(***************************************************************************)
(* Properties of the published messages.                                   *)
(***************************************************************************)
DiscoverySwept == sweep.kind = "discovery"
\* The row of ha_discovery_configs an entry of the discovery log is for.
ConfigOf(entry) ==
  ha_discovery_configs[CHOOSE n \in 1..NumMetrics :
                         ha_discovery_configs[n].name = entry.name]

\* C14: for every metric and poll interval n the discovery payload has
\* expire_after = 4 * n exactly when the component is "sensor" and no
\* expire_after when it is "binary_sensor"; the component is "binary_sensor"
\* exactly when the metadata has device class "running" or an on-payload.
C14_ExpireAfterSensorsOnly ==
  DiscoverySwept =>
    \A n \in 1..Len(sweep.log) :
      LET entry == sweep.log[n]
          config == ConfigOf(entry)
      IN  /\ entry.component \in {"sensor", "binary_sensor"}
          /\ entry.component = "binary_sensor"
               <=> (config.device_class = "running" \/ config.payload_on)
          /\ \A c \in 1..Len(entry.calls) :
               /\ entry.component = "sensor"
                    => entry.calls[c].expire_after = <<4 * polling_interval>>
               /\ entry.component = "binary_sensor"
                    => entry.calls[c].expire_after = <<>>

\* A sweep with the largest interval that registers both components.
C14_Witness ==
  /\ DiscoverySwept /\ polling_interval = MaxInterval
  /\ \E n, k \in 1..Len(sweep.log) :
       /\ sweep.log[n].component = "sensor"
       /\ sweep.log[n].calls[1].expire_after = <<4 * MaxInterval>>
       /\ sweep.log[k].component = "binary_sensor"
       /\ ConfigOf(sweep.log[k]).payload_on
       /\ sweep.log[k].calls[1].expire_after = <<>>

\* C15: every telemetry message is non-retained, every availability message
\* is retained with payload "online" or "offline", and every discovery
\* message is retained.
C15_RetainFlags ==
  /\ \A n \in 1..Len(avail_pubs) :
       avail_pubs[n].retain /\ avail_pubs[n].payload \in {"online", "offline"}
  /\ sweep.kind # "none" =>
       \A n \in 1..Len(sweep.log) : \A c \in 1..Len(sweep.log[n].calls) :
         LET msg == sweep.log[n].calls[c]
         IN  /\ sweep.kind = "metrics" =>
                  /\ msg.topic = mqtt_topic_prefix \o sweep.log[n].name
                  /\ ~msg.retain
             /\ sweep.kind = "discovery" => msg.retain

\* Telemetry is being published while "online" has been published.
C15_Witness ==
  /\ sweep.kind = "metrics"
  /\ \E n \in 1..Len(sweep.log) : sweep.log[n].calls # <<>>
  /\ avail_pubs # <<>>

\* C16: a discovery publish that fails or raises for one metric does not
\* stop the sweep: every metric of the table gets exactly one registration
\* publish, and the sweep returns normally to the start of the poll loop.
C16_DiscoverySweepIsolates ==
  DiscoverySwept =>
    /\ Len(sweep.log) = NumMetrics
    /\ \A n \in 1..NumMetrics :
         /\ sweep.log[n].name = ha_discovery_configs[n].name
         /\ Len(sweep.log[n].calls) = 1
    /\ pc = "loop"
    /\ err = "none"

\* The first publish raised and the last one went through.
C16_Witness ==
  /\ DiscoverySwept
  /\ sweep.log[1].calls[1].rc = "raise"
  /\ sweep.log[NumMetrics].calls[1].rc = "ok"
  /\ pc = "loop"

(***************************************************************************)
(* Properties of the poll loop's schedule.                                 *)
(***************************************************************************)
\* C17: once running is False the poll loop ends, run() goes through its
\* shutdown step (offline publish, network loop stopped, disconnect call)
\* and returns, unless the process is killed first; and nothing sets running
\* back to True.
C17_ShutdownCompletes ==
  /\ (~running /\ connect_result = "True")
       ~> \/ pc = "done" /\ OfflineIssued /\ ~loop_thread
          \/ pc = "killed"
  /\ [][~running => ~running']_vars

\* A shutdown requested in the middle of a cycle has run to its end.
C17_Witness ==
  /\ ~running /\ pc = "done" /\ err = "none"
  /\ fetched /\ since_stop.sleep = 1
  /\ OfflineIssued /\ session = "closed"

\* C18: while no shutdown is requested, each cycle makes one fetch, then at
\* most one sweep, then exactly polling_interval sleeps of one second with
\* the flag checked before each, then the next fetch; after a failed fetch
\* the wait is the same as after a successful one.
C18_CycleSchedule ==
  [][(running /\ running' /\ pc' # pc /\ pc' # "killed") =>
       /\ pc = "loop" => pc' = "fetch"
       /\ pc = "fetch" =>
            /\ pc' = (IF fetch_outcome' # "ok" THEN "wait"
                      ELSE IF Truthy(Docs[data']) THEN "publish" ELSE "wait")
            /\ waited' = 0
       /\ pc = "publish" => pc' = "wait" /\ waited' = 0 /\ sweep'.kind = "metrics"
       /\ pc = "wait" =>
            IF waited < polling_interval
            THEN pc' = "sleep" /\ waited' = waited
            ELSE pc' = "loop" /\ waited = polling_interval
       /\ pc = "sleep" => pc' = "wait" /\ waited' = waited + 1]_vars

(***************************************************************************)
(* Properties of successive cycles.                                        *)
(***************************************************************************)
\* The value of a metric in a document: the addressed value, a non-empty
\* array replaced by its element 0; None when nothing is addressed.
ValueIn(doc, path) ==
  LET a == Addressed(doc, path, 1, FALSE)
  IN  IF a = <<>> THEN None
      ELSE IF a[1].t = "list" /\ Len(a[1].v) > 0 THEN a[1].v[1] ELSE a[1]

\* C19: the telemetry of a cycle depends only on the document fetched in
\* that cycle: a metric is published exactly when it resolves in the
\* current document, with the payload of its current value, whatever the
\* cycle before fetched or published.
C19_TelemetryFromCurrentDocument ==
  call.fn = "cycles" =>
    \A k \in 1..Len(call.out) :
      LET doc == Docs[call.docs[k]]
      IN  IF ~Truthy(doc) THEN call.out[k] = <<>>
          ELSE /\ Len(call.out[k]) = NumMetrics
               /\ \A n \in 1..NumMetrics :
                    LET e == call.out[k][n]
                        value == ValueIn(doc, topic_mappings[n].path)
                    IN  /\ e.name = topic_mappings[n].name
                        /\ e.found <=> value # None
                        /\ ~e.found => e.calls = <<>>
                        /\ e.found =>
                             /\ Len(e.calls) = 1
                             /\ e.calls[1].payload = Payload(e.name, value)

\* A metric published in the first cycle is absent from the second
\* document and is not published again; another one is unchanged and is
\* published again.
C19_Witness ==
  /\ call.fn = "cycles" /\ Len(call.out) = 2
  /\ call.out[1] # <<>> /\ call.out[2] # <<>>
  /\ \E n, k \in 1..NumMetrics :
       /\ call.out[1][n].found /\ ~call.out[2][n].found
       /\ call.out[1][k].found /\ call.out[2][k].found
       /\ call.out[1][k].calls[1].payload = call.out[2][k].calls[1].payload

(***************************************************************************)
(* Properties of the availability topic at shutdown.                       *)
(***************************************************************************)
\* C20: under every interleaving of run() with the connect callbacks of
\* the network thread, the last availability message published in a
\* graceful shutdown is "offline": no "online" of _on_mqtt_connect comes
\* after the "offline" of disconnect_mqtt.
C20_OfflineIsLast ==
  (pc = "done" /\ OfflineIssued) => avail_pubs[Len(avail_pubs)] = Offline
====
